---- MODULE Spec2Model ----
(***************************************************************************)
(* Model of package ded (src/ded.go): the single-slot cache Mem, guarded   *)
(* by a sync.RWMutex, with the value-or-error container Either and the     *)
(* timestamped pair Timed.                                                 *)
(*                                                                         *)
(* Every goroutine that uses one shared *Mem is a process p \in Procs.     *)
(* A process is idle or inside one call of Mem.GetTimed, Mem.Get,          *)
(* Mem.SetTimed, Mem.Zero or Mem.Dedup; pc[p] is its position in the code. *)
(* Getter and Timer are opaque user code: a non-nil getter or timer is an  *)
(* invocation that takes time and then returns a value or panics.          *)
(***************************************************************************)
EXTENDS Integers, FiniteSets, TLC

\* ---------------------------------------------------------------- bounds
NumProcs == 2
MaxTime == 1
NumSharers == 3
MaxDur == 1

Procs == 1..NumProcs
NoProc == 0

\* ---------------------------------------------------------------- values
\* interface{} payloads: the nil interface, a plain value, two error values.
Vals == {"nil", "v1", "errE", "errF"}
Errors == {"errE", "errF"}

\* time.Time values; 0 is time.Time{}.
Times == 0..MaxTime
ZeroTime == 0

MakeTimed(v, inst) == [v |-> v, t |-> inst]
TimedVals == [v : Vals, t : Times]
ZeroTimed == MakeTimed("nil", ZeroTime)

\* The result of running user code or a method that may panic.
Returned(v) == [k |-> "ret", v |-> v, t |-> 0]
ReturnedTime(t) == [k |-> "ret", v |-> "nil", t |-> t]
Panicked(v) == [k |-> "panic", v |-> v, t |-> 0]
NoOutcome == [k |-> "none", v |-> "nil", t |-> 0]

\* ---------------------------------------------------------------- Either
\* val.(error): the payload implements error.
IsError(v) == v \in Errors

\* An Unwrap without the type assertion: every payload is a value.
UnwrapNoError(slot) == [val |-> slot, err |-> "nil"]

\* An Unwrap that reports the error and hands out the payload as well.
UnwrapKeepsValue(slot) == IF IsError(slot) THEN [val |-> slot, err |-> slot]
                          ELSE [val |-> slot, err |-> "nil"]

\* Either.Unwrap: (nil, err) for an error payload, (val, nil) otherwise.
Unwrap(slot) == IF IsError(slot) THEN [val |-> "nil", err |-> slot]
                ELSE [val |-> slot, err |-> "nil"]

\* Either.Get: panics with the error, otherwise returns the payload.
EitherGet(slot) == IF Unwrap(slot).err # "nil" THEN Panicked(Unwrap(slot).err)
                   ELSE Returned(Unwrap(slot).val)

\* A rec that stores the value and panics again.
RecRethrows(slot, o) == [slot |-> IF o.v # "nil" THEN o.v ELSE slot,
                         unwinding |-> o.k = "panic"]

\* A rec that recovers and drops the recovered value.
RecDrops(slot, o) == [slot |-> slot, unwinding |-> FALSE]

\* Either.rec, deferred: recover() ends the panic; a non-nil recovered value
\* replaces the payload. Gives the payload afterwards and whether the panic
\* still unwinds.
Rec(slot, o) == IF o.k = "panic"
                THEN [slot |-> IF o.v # "nil" THEN o.v ELSE slot, unwinding |-> FALSE]
                ELSE [slot |-> slot, unwinding |-> FALSE]

\* ---------------------------------------------------------------- capabilities
\* The clock of the machine: what time.Now() returns.
VARIABLE now

\* Getter arguments: the nil interface or some user getter.
Getters == {"nil", "fn"}
\* What an invocation of a user getter may do: return any payload, or panic
\* with any value; recover() gives nil for panic(nil).
GetOutcomes == {Returned(v) : v \in Vals} \cup {Panicked(v) : v \in Vals}

\* Timer arguments: nil, some user timer, or Inst(t).
NilTimer == [k |-> "nil", t |-> ZeroTime]
FnTimer == [k |-> "fn", t |-> ZeroTime]
InstTimer(t) == [k |-> "inst", t |-> t]
NowTimer == [k |-> "now", t |-> ZeroTime]
Timers == {NilTimer, FnTimer}
\* What an invocation of a timer may do.
TimeOutcomes(tm) == IF tm.k = "inst" THEN {ReturnedTime(tm.t)}
                    ELSE IF tm.k = "now" THEN {ReturnedTime(now)}
                    ELSE {ReturnedTime(t) : t \in Times}
                           \cup {Panicked(e) : e \in Errors \cup {"nil"}}

\* Expirer arguments: nil, BoolExpirer(b) (Void is BoolExpirer(true)), Inst(i).
NilExpirer == [k |-> "nil", b |-> TRUE, i |-> ZeroTime]
BoolExpirer(b) == [k |-> "bool", b |-> b, i |-> ZeroTime]
InstExpirer(i) == [k |-> "inst", b |-> TRUE, i |-> i]
Expirers == {NilExpirer, BoolExpirer(TRUE), BoolExpirer(FALSE)}
              \cup {InstExpirer(i) : i \in Times}
\* Duration(d): d may be negative.
Durations == (0 - MaxDur)..MaxDur
DurationExpirer(d) == [k |-> "dur", b |-> TRUE, i |-> d]

\* A Duration that expires a state at the instant its time is up.
ExpirerIsExpiredNotBefore(exp, timed) ==
  IF exp.k = "bool" THEN exp.b
  ELSE IF exp.k = "dur" THEN now >= timed.t + exp.i
  ELSE timed.t > exp.i

\* exp.IsExpired(timed) of the expirer types; for Duration,
\* time.Now().After(val.Time.Add(d)).
ExpirerIsExpired(exp, timed) ==
  IF exp.k = "bool" THEN exp.b
  ELSE IF exp.k = "dur" THEN now > timed.t + exp.i
  ELSE timed.t > exp.i

\* An IsExpired for which no policy means never expired.
IsExpiredNilFresh(exp, timed) == exp.k # "nil" /\ ExpirerIsExpired(exp, timed)

\* An IsExpired that asks the policy and answers the opposite.
IsExpiredInverted(exp, timed) == exp.k = "nil" \/ ~ExpirerIsExpired(exp, timed)

\* Package function IsExpired: nil-safe, nil means expired.
IsExpired(exp, timed) == exp.k = "nil" \/ ExpirerIsExpired(exp, timed)

\* Package function Get: nil-safe; for a non-nil getter the `return val`
\* gives back the getter itself, converted to interface{}, and makes no call.
PkgGet(g) == IF g # "nil" THEN Returned(g) ELSE Returned("nil")

\* Package function Time: nil-safe; o is what val.Time() does.
PkgTime(tm, o) == IF tm.k # "nil" THEN o ELSE ReturnedTime(ZeroTime)

\* The two results of Unwrap as returned.
ReturnedPair(u) == [k |-> "ret", v |-> u.val, t |-> 0, e |-> u.err]

\* A bool as a returned value.
ReturnedBool(b) == Returned(IF b THEN "true" ELSE "false")

\* A policy written by the user of the package: opaque code whose every
\* call answers true or false or panics with some value.
FnExpirer == [k |-> "fn", b |-> TRUE, i |-> ZeroTime]

\* A policy of the user that refuses stored failures: it panics with the
\* stored error, and otherwise expires the states with the zero timestamp.
StrictExpirer == [k |-> "strict", b |-> TRUE, i |-> ZeroTime]

\* What one call IsExpired(exp, timed) may do: the policies of the package
\* answer; an opaque policy of the user does anything.
IsExpiredOutcomes(e, timed) ==
  IF e.k = "fn"
  THEN {ReturnedBool(TRUE), ReturnedBool(FALSE)}
         \cup {Panicked(v) : v \in Errors \cup {"nil"}}
  ELSE IF e.k = "strict"
  THEN IF IsError(timed.v) THEN {Panicked(timed.v)}
       ELSE {ReturnedBool(timed.t = ZeroTime)}
  ELSE {ReturnedBool(IsExpired(e, timed))}

\* ---------------------------------------------------------------- state
VARIABLES
  val,      \* Mem.val, the stored Timed
  lockW,    \* the process that owns Mem.lock for writing (pending or holding)
  readers,  \* the processes that hold Mem.lock for reading
  pc,       \* position of each process
  op,       \* the call each process is in
  get,      \* Dedup argument: the Getter
  time,     \* Dedup argument: the Timer
  exp,      \* Dedup argument: the Expirer
  arg,      \* SetTimed argument
  lval,     \* the local copy `val` of a GetTimed or Dedup call
  ret,      \* the Timed a call returned
  res,      \* how the call ended: returned a value, or panicked
  path,     \* history: which way the Dedup call went
  gres,     \* history: outcome of the getter invocation of this Dedup call
  tres,     \* history: outcome of the timer invocation of this Dedup call
  ninv,     \* history: getter and timer invocations this call has made
  s0,       \* history: the stored state when the latest call began
  w0,       \* history: whose getter was running when this GetTimed began
  prev      \* history: the policy and the outcomes of the caller's latest refresh

vars == <<val, lockW, readers, pc, op, get, time, exp, arg, lval, ret, res,
          path, gres, tres, ninv, s0, w0, now, prev>>

locals == <<get, time, exp, arg>>
hist == <<path, gres, tres, ninv>>
NoInvocations == [g |-> 0, t |-> 0]
NoRefresh == [e |-> NilExpirer, g |-> NoOutcome, t |-> NoOutcome]

\* NewMem(val): any stored state; the zero Mem is NewMem(Timed{}).
NewMem(v) ==
  /\ val = v
  /\ lockW = NoProc
  /\ readers = {}
  /\ s0 = v

\* No goroutine of the set G is in a call; e is the policy a caller has at
\* hand; the clock starts at the earliest time.
IdleOf(G, e) ==
  /\ pc = [p \in G |-> "idle"]
  /\ op = [p \in G |-> "none"]
  /\ get = [p \in G |-> "nil"]
  /\ time = [p \in G |-> NilTimer]
  /\ exp = [p \in G |-> e]
  /\ arg = [p \in G |-> ZeroTimed]
  /\ lval = [p \in G |-> ZeroTimed]
  /\ ret = [p \in G |-> ZeroTimed]
  /\ res = [p \in G |-> NoOutcome]
  /\ path = [p \in G |-> "none"]
  /\ gres = [p \in G |-> NoOutcome]
  /\ tres = [p \in G |-> NoOutcome]
  /\ ninv = [p \in G |-> NoInvocations]
  /\ w0 = [p \in G |-> NoProc]
  /\ prev = [p \in G |-> NoRefresh]
  /\ now = ZeroTime

Idle(e) == IdleOf(Procs, e)

Init == \E v \in TimedVals : NewMem(v) /\ Idle(NilExpirer)

\* ---------------------------------------------------------------- calls
\* The process that is inside the getter invocation of its Dedup call.
Refresher ==
  IF \E q \in DOMAIN pc : pc[q] = "getting"
  THEN CHOOSE q \in DOMAIN pc : pc[q] = "getting"
  ELSE NoProc

\* A process enters a call with fresh locals.
Enter(p, o, first, g, tm, e, a) ==
  /\ pc[p] = "idle"
  /\ pc' = [pc EXCEPT ![p] = first]
  /\ op' = [op EXCEPT ![p] = o]
  /\ get' = [get EXCEPT ![p] = g]
  /\ time' = [time EXCEPT ![p] = tm]
  /\ exp' = [exp EXCEPT ![p] = e]
  /\ arg' = [arg EXCEPT ![p] = a]
  /\ lval' = [lval EXCEPT ![p] = ZeroTimed]
  /\ ret' = [ret EXCEPT ![p] = ZeroTimed]
  /\ res' = [res EXCEPT ![p] = NoOutcome]
  /\ path' = [path EXCEPT ![p] = "none"]
  /\ gres' = [gres EXCEPT ![p] = NoOutcome]
  /\ tres' = [tres EXCEPT ![p] = NoOutcome]
  /\ ninv' = [ninv EXCEPT ![p] = NoInvocations]
  /\ s0' = val
  /\ w0' = [w0 EXCEPT ![p] = IF first = "rlock" THEN Refresher ELSE NoProc]
  /\ UNCHANGED <<val, lockW, readers, now, prev>>

CallGetTimed(p) == Enter(p, "GetTimed", "rlock", "nil", NilTimer, NilExpirer, ZeroTimed)

CallGet(p) == Enter(p, "Get", "rlock", "nil", NilTimer, NilExpirer, ZeroTimed)

CallSetTimed(p) ==
  \E a \in TimedVals : Enter(p, "SetTimed", "lock", "nil", NilTimer, NilExpirer, a)

CallZero(p) == Enter(p, "Zero", "lock", "nil", NilTimer, NilExpirer, ZeroTimed)

CallDedup(p) ==
  \E g \in Getters, tm \in Timers, e \in Expirers :
    Enter(p, "Dedup", "rlock", g, tm, e, ZeroTimed)

\* ---------------------------------------------------------------- sync.RWMutex
\* An RLock that does not wait for the writer.
RLockNoWait(p) ==
  /\ pc[p] = "rlock"
  /\ readers' = readers \cup {p}
  /\ pc' = [pc EXCEPT ![p] = "read"]
  /\ UNCHANGED <<val, lockW, op, locals, lval, ret, res, hist, s0, w0, now, prev>>

\* An RLock that admits one reader at a time.
RLockOneReader(p) ==
  /\ pc[p] = "rlock"
  /\ lockW = NoProc
  /\ readers = {}
  /\ readers' = readers \cup {p}
  /\ pc' = [pc EXCEPT ![p] = "read"]
  /\ UNCHANGED <<val, lockW, op, locals, lval, ret, res, hist, s0, w0, now, prev>>

\* RLock: blocks while a writer holds the lock or waits for it.
RLock(p) ==
  /\ pc[p] = "rlock"
  /\ lockW = NoProc
  /\ readers' = readers \cup {p}
  /\ pc' = [pc EXCEPT ![p] = "read"]
  /\ UNCHANGED <<val, lockW, op, locals, lval, ret, res, hist, s0, w0, now, prev>>

\* Where a writer goes once it holds the lock.
Held(p) == IF op[p] = "Dedup" THEN "recheck" ELSE "write1"

\* A Lock that does not wait for the writer that owns the lock.
LockNoExclusion(p) ==
  /\ pc[p] = "lock"
  /\ lockW' = p
  /\ pc' = [pc EXCEPT ![p] = IF readers = {} THEN Held(p) ELSE "drain"]
  /\ UNCHANGED <<val, readers, op, locals, lval, ret, res, hist, s0, w0, now, prev>>

\* A Lock that excludes writers only and does not look at the readers.
LockBarging(p) ==
  /\ pc[p] = "lock"
  /\ lockW = NoProc
  /\ lockW' = p
  /\ pc' = [pc EXCEPT ![p] = Held(p)]
  /\ UNCHANGED <<val, readers, op, locals, lval, ret, res, hist, s0, w0, now, prev>>

\* Lock: excludes other writers at once, then waits for the readers to leave.
Lock(p) ==
  /\ pc[p] = "lock"
  /\ lockW = NoProc
  /\ lockW' = p
  /\ pc' = [pc EXCEPT ![p] = IF readers = {} THEN Held(p) ELSE "drain"]
  /\ UNCHANGED <<val, readers, op, locals, lval, ret, res, hist, s0, w0, now, prev>>

\* A Lock that does not wait for the readers inside to leave.
LockDrainedNoWait(p) ==
  /\ pc[p] = "drain"
  /\ pc' = [pc EXCEPT ![p] = Held(p)]
  /\ UNCHANGED <<val, lockW, readers, op, locals, lval, ret, res, hist, s0, w0, now, prev>>

\* Lock, second half: the readers inside have left.
LockDrained(p) ==
  /\ pc[p] = "drain"
  /\ readers = {}
  /\ pc' = [pc EXCEPT ![p] = Held(p)]
  /\ UNCHANGED <<val, lockW, readers, op, locals, lval, ret, res, hist, s0, w0, now, prev>>

\* ---------------------------------------------------------------- GetTimed
\* `return self.val` under the read lock.
ReadVal(p) ==
  /\ pc[p] = "read"
  /\ lval' = [lval EXCEPT ![p] = val]
  /\ pc' = [pc EXCEPT ![p] = "runlock"]
  /\ UNCHANGED <<val, lockW, readers, op, locals, ret, res, hist, s0, w0, now, prev>>

\* The deferred RUnlock; GetTimed returns to its caller: the user, Mem.Get
\* or Mem.Dedup, which goes on with its first expiration check; a panic of
\* the policy leaves Dedup, which has deferred nothing yet. The local copy
\* is not read again before Dedup overwrites it under the write lock.
RUnlock(p) ==
  /\ pc[p] = "runlock"
  /\ readers' = readers \ {p}
  /\ lval' = [lval EXCEPT ![p] = ZeroTimed]
  /\ \E o \in IF op[p] = "Dedup" THEN IsExpiredOutcomes(exp[p], lval[p])
                ELSE {ReturnedBool(FALSE)} :
       IF o = ReturnedBool(TRUE)
       THEN /\ pc' = [pc EXCEPT ![p] = "lock"]
            /\ UNCHANGED <<ret, res, path, get, time>>
       ELSE /\ pc' = [pc EXCEPT ![p] = "done"]
            /\ get' = [get EXCEPT ![p] = "nil"]
            /\ time' = [time EXCEPT ![p] = NilTimer]
            /\ IF o.k = "panic"
               THEN /\ res' = [res EXCEPT ![p] = o]
                    /\ path' = [path EXCEPT ![p] = "panic1"]
                    /\ UNCHANGED ret
               ELSE /\ ret' = [ret EXCEPT ![p] = lval[p]]
                    /\ res' = [res EXCEPT ![p] =
                                 IF op[p] = "Get" THEN EitherGet(lval[p].v)
                                 ELSE Returned("nil")]
                    /\ path' = [path EXCEPT ![p] =
                                  IF op[p] = "Dedup" THEN "fast" ELSE "none"]
  /\ w0' = [w0 EXCEPT ![p] = NoProc]
  /\ UNCHANGED <<val, lockW, op, exp, arg, gres, tres, ninv, s0, now, prev>>

\* ---------------------------------------------------------------- SetTimed
\* `self.val = val` copies the Either, then the timestamp.
WriteEither(p) ==
  /\ pc[p] = "write1"
  /\ val' = [val EXCEPT !.v = arg[p].v]
  /\ pc' = [pc EXCEPT ![p] = "write2"]
  /\ UNCHANGED <<lockW, readers, op, locals, lval, ret, res, hist, s0, w0, now, prev>>

\* A SetTimed that copies the payload and leaves the timestamp.
WriteTimeKeeps(p) ==
  /\ pc[p] = "write2"
  /\ pc' = [pc EXCEPT ![p] = "unlock"]
  /\ UNCHANGED <<val, lockW, readers, op, locals, lval, ret, res, hist, s0, w0, now, prev>>

\* The second half of `self.val = val`.
WriteTime(p) ==
  /\ pc[p] = "write2"
  /\ val' = [val EXCEPT !.t = arg[p].t]
  /\ pc' = [pc EXCEPT ![p] = "unlock"]
  /\ UNCHANGED <<lockW, readers, op, locals, lval, ret, res, hist, s0, w0, now, prev>>

\* The deferred Unlock of SetTimed; its frame is gone.
Unlock(p) ==
  /\ pc[p] = "unlock"
  /\ lockW' = NoProc
  /\ pc' = [pc EXCEPT ![p] = "done"]
  /\ res' = [res EXCEPT ![p] = Returned("nil")]
  /\ arg' = [arg EXCEPT ![p] = ZeroTimed]
  /\ UNCHANGED <<val, readers, op, get, time, exp, lval, ret, hist, s0, w0, now, prev>>

\* ---------------------------------------------------------------- Dedup
\* A panic that leaves Dedup without running the deferred Unlock.
UnwindKeepsLock(p, o) ==
  /\ lockW' = lockW
  /\ pc' = [pc EXCEPT ![p] = "done"]
  /\ res' = [res EXCEPT ![p] = o]

\* A panic that no deferred function recovered leaves Dedup: the deferred
\* Unlock runs and the caller sees the panic.
Unwind(p, o) ==
  /\ lockW' = NoProc
  /\ pc' = [pc EXCEPT ![p] = "done"]
  /\ res' = [res EXCEPT ![p] = o]

\* Dedup without the second expiration check: whoever gets the write lock
\* refreshes.
RecheckSkipped(p) ==
  /\ pc[p] = "recheck"
  /\ lval' = [lval EXCEPT ![p] = val]
  /\ pc' = [pc EXCEPT ![p] = "setget"]
  /\ path' = [path EXCEPT ![p] = "refresh"]
  /\ UNCHANGED <<val, lockW, readers, op, locals, ret, res, gres, tres, ninv, s0, w0, now, prev>>

\* The second check with its branches swapped.
RecheckInverted(p) ==
  /\ pc[p] = "recheck"
  /\ lval' = [lval EXCEPT ![p] = val]
  /\ IF ~IsExpired(exp[p], val)
     THEN /\ pc' = [pc EXCEPT ![p] = "setget"]
          /\ path' = [path EXCEPT ![p] = "refresh"]
          /\ UNCHANGED ret
     ELSE /\ pc' = [pc EXCEPT ![p] = "dunlock"]
          /\ path' = [path EXCEPT ![p] = "recheck"]
          /\ ret' = [ret EXCEPT ![p] = val]
  /\ UNCHANGED <<val, lockW, readers, op, locals, res, gres, tres, ninv, s0, w0, now, prev>>

\* A re-check that takes a panic of the policy for the answer "expired".
RecheckPanicRefreshes(p) ==
  /\ pc[p] = "recheck"
  /\ lval' = [lval EXCEPT ![p] = val]
  /\ \E o \in IsExpiredOutcomes(exp[p], val) :
       IF o = ReturnedBool(FALSE)
       THEN /\ pc' = [pc EXCEPT ![p] = "dunlock"]
            /\ path' = [path EXCEPT ![p] = "recheck"]
            /\ ret' = [ret EXCEPT ![p] = val]
       ELSE /\ pc' = [pc EXCEPT ![p] = "setget"]
            /\ path' = [path EXCEPT ![p] = "refresh"]
            /\ UNCHANGED ret
  /\ UNCHANGED <<val, lockW, readers, op, locals, res, gres, tres, ninv, s0, w0, now, prev>>

\* `val = self.val` and the second expiration check, under the write lock;
\* a panic of the policy leaves Dedup through the deferred Unlock.
Recheck(p) ==
  /\ pc[p] = "recheck"
  /\ lval' = [lval EXCEPT ![p] = val]
  /\ \E o \in IsExpiredOutcomes(exp[p], val) :
       IF o = ReturnedBool(TRUE)
       THEN /\ pc' = [pc EXCEPT ![p] = "setget"]
            /\ path' = [path EXCEPT ![p] = "refresh"]
            /\ UNCHANGED <<ret, lockW, res>>
       ELSE IF o.k = "panic"
       THEN /\ Unwind(p, o)
            /\ path' = [path EXCEPT ![p] = "panic2"]
            /\ UNCHANGED ret
       ELSE /\ pc' = [pc EXCEPT ![p] = "dunlock"]
            /\ path' = [path EXCEPT ![p] = "recheck"]
            /\ ret' = [ret EXCEPT ![p] = val]
            /\ UNCHANGED <<lockW, res>>
  /\ UNCHANGED <<val, readers, op, locals, gres, tres, ninv, s0, w0, now, prev>>

\* A SetGetter that returns at once on a nil getter, without Set(nil).
SetGetterNilKeeps(p) ==
  /\ pc[p] = "setget"
  /\ IF get[p] = "nil"
     THEN /\ pc' = [pc EXCEPT ![p] = "settime"]
          /\ UNCHANGED <<val, ninv>>
     ELSE /\ pc' = [pc EXCEPT ![p] = "getting"]
          /\ ninv' = [ninv EXCEPT ![p].g = @ + 1]
          /\ UNCHANGED val
  /\ UNCHANGED <<lockW, readers, op, locals, lval, ret, res, path, gres, tres, s0, w0, now, prev>>

\* A SetGetter that lets go of the write lock while the getter runs.
SetGetterUnlocked(p) ==
  /\ pc[p] = "setget"
  /\ IF get[p] = "nil"
     THEN /\ val' = [val EXCEPT !.v = "nil"]
          /\ pc' = [pc EXCEPT ![p] = "settime"]
          /\ UNCHANGED <<ninv, lockW>>
     ELSE /\ pc' = [pc EXCEPT ![p] = "getting"]
          /\ ninv' = [ninv EXCEPT ![p].g = @ + 1]
          /\ lockW' = NoProc
          /\ UNCHANGED val
  /\ UNCHANGED <<readers, op, locals, lval, ret, res, path, gres, tres, s0, w0, now, prev>>

\* self.val.SetGetter(get): a nil getter sets nil; otherwise the getter runs.
SetGetter(p) ==
  /\ pc[p] = "setget"
  /\ IF get[p] = "nil"
     THEN /\ val' = [val EXCEPT !.v = "nil"]
          /\ pc' = [pc EXCEPT ![p] = "settime"]
          /\ UNCHANGED ninv
     ELSE /\ pc' = [pc EXCEPT ![p] = "getting"]
          /\ ninv' = [ninv EXCEPT ![p].g = @ + 1]
          /\ UNCHANGED val
  /\ UNCHANGED <<lockW, readers, op, locals, lval, ret, res, path, gres, tres, s0, w0, now, prev>>

\* The getter ends: self.Set(val.Get()), or the deferred rec() on a panic.
GetterDone(p) ==
  /\ pc[p] = "getting"
  /\ \E o \in GetOutcomes :
       LET r == Rec(val.v, o) IN
       /\ gres' = [gres EXCEPT ![p] = o]
       /\ val' = [val EXCEPT !.v = IF o.k = "ret" THEN o.v ELSE r.slot]
       /\ IF o.k = "panic" /\ r.unwinding
          THEN Unwind(p, o)
          ELSE /\ pc' = [pc EXCEPT ![p] = "settime"]
               /\ UNCHANGED <<lockW, res>>
  /\ UNCHANGED <<readers, op, locals, lval, ret, path, tres, ninv, s0, w0, now, prev>>

\* A SetTimer that leaves a stored failure alone and does not call the timer.
SetTimerUnlessFailed(p) ==
  /\ pc[p] = "settime"
  /\ IF time[p].k = "nil"
     THEN /\ val' = [val EXCEPT !.t = ZeroTime]
          /\ pc' = [pc EXCEPT ![p] = "return"]
          /\ UNCHANGED ninv
     ELSE IF IsError(val.v)
     THEN /\ pc' = [pc EXCEPT ![p] = "return"]
          /\ UNCHANGED <<val, ninv>>
     ELSE /\ pc' = [pc EXCEPT ![p] = "timing"]
          /\ ninv' = [ninv EXCEPT ![p].t = @ + 1]
          /\ UNCHANGED val
  /\ UNCHANGED <<lockW, readers, op, locals, lval, ret, res, path, gres, tres, s0, w0, now, prev>>

\* A SetTimer that returns at once on a nil timer, leaving the timestamp.
SetTimerNilKeeps(p) ==
  /\ pc[p] = "settime"
  /\ IF time[p].k = "nil"
     THEN /\ pc' = [pc EXCEPT ![p] = "return"]
          /\ UNCHANGED <<val, ninv>>
     ELSE /\ pc' = [pc EXCEPT ![p] = "timing"]
          /\ ninv' = [ninv EXCEPT ![p].t = @ + 1]
          /\ UNCHANGED val
  /\ UNCHANGED <<lockW, readers, op, locals, lval, ret, res, path, gres, tres, s0, w0, now, prev>>

\* self.val.SetTimer(time): a nil timer sets time.Time{}; otherwise it runs.
SetTimer(p) ==
  /\ pc[p] = "settime"
  /\ IF time[p].k = "nil"
     THEN /\ val' = [val EXCEPT !.t = ZeroTime]
          /\ pc' = [pc EXCEPT ![p] = "return"]
          /\ UNCHANGED ninv
     ELSE /\ pc' = [pc EXCEPT ![p] = "timing"]
          /\ ninv' = [ninv EXCEPT ![p].t = @ + 1]
          /\ UNCHANGED val
  /\ UNCHANGED <<lockW, readers, op, locals, lval, ret, res, path, gres, tres, s0, w0, now, prev>>

\* A SetTimer whose recovery also resets the timestamp.
TimerDoneResetsTime(p) ==
  /\ pc[p] = "timing"
  /\ \E o \in TimeOutcomes(time[p]) :
       LET r == Rec(val.v, o) IN
       /\ tres' = [tres EXCEPT ![p] = o]
       /\ val' = IF o.k = "ret" THEN [val EXCEPT !.t = o.t]
                 ELSE MakeTimed(r.slot, ZeroTime)
       /\ pc' = [pc EXCEPT ![p] = "return"]
       /\ UNCHANGED <<lockW, res>>
  /\ UNCHANGED <<readers, op, locals, lval, ret, path, gres, ninv, s0, w0, now, prev>>

\* The timer ends: self.Time = val.Time(), or the deferred rec() on a panic,
\* which replaces the payload and leaves the timestamp.
TimerDone(p) ==
  /\ pc[p] = "timing"
  /\ \E o \in TimeOutcomes(time[p]) :
       LET r == Rec(val.v, o) IN
       /\ tres' = [tres EXCEPT ![p] = o]
       /\ val' = IF o.k = "ret" THEN [val EXCEPT !.t = o.t]
                 ELSE [val EXCEPT !.v = r.slot]
       /\ IF o.k = "panic" /\ r.unwinding
          THEN Unwind(p, o)
          ELSE /\ pc' = [pc EXCEPT ![p] = "return"]
               /\ UNCHANGED <<lockW, res>>
  /\ UNCHANGED <<readers, op, locals, lval, ret, path, gres, ninv, s0, w0, now, prev>>

\* A Dedup that returns its local copy `val`, taken at the re-check.
ReturnValLocal(p) ==
  /\ pc[p] = "return"
  /\ ret' = [ret EXCEPT ![p] = lval[p]]
  /\ pc' = [pc EXCEPT ![p] = "dunlock"]
  /\ UNCHANGED <<val, lockW, readers, op, locals, lval, res, hist, s0, w0, now, prev>>

\* `return self.val`: the result is copied while the lock is still held.
ReturnVal(p) ==
  /\ pc[p] = "return"
  /\ ret' = [ret EXCEPT ![p] = val]
  /\ pc' = [pc EXCEPT ![p] = "dunlock"]
  /\ UNCHANGED <<val, lockW, readers, op, locals, lval, res, hist, s0, w0, now, prev>>

\* The deferred Unlock of Dedup; Dedup returns to its caller, who holds the
\* result and the policy; the frame and the record of the refresh are gone.
DedupUnlockFrame(p) ==
  /\ pc[p] = "dunlock"
  /\ lockW' = NoProc
  /\ pc' = [pc EXCEPT ![p] = "done"]
  /\ res' = [res EXCEPT ![p] = Returned("nil")]
  /\ get' = [get EXCEPT ![p] = "nil"]
  /\ time' = [time EXCEPT ![p] = NilTimer]
  /\ lval' = [lval EXCEPT ![p] = ZeroTimed]
  /\ gres' = [gres EXCEPT ![p] = NoOutcome]
  /\ tres' = [tres EXCEPT ![p] = NoOutcome]
  /\ UNCHANGED <<val, readers, op, exp, arg, ret, path, ninv, s0, w0, now>>

DedupUnlock(p) == DedupUnlockFrame(p) /\ UNCHANGED prev

\* The same step, observed: the observer keeps the policy of the call and
\* what its getter and its timer did.
DedupUnlockNoted(p) ==
  /\ DedupUnlockFrame(p)
  /\ prev' = [prev EXCEPT ![p] = [e |-> exp[p], g |-> gres[p], t |-> tres[p]]]

\* The caller has its result and is free to make another call.
Finish(p) ==
  /\ pc[p] = "done"
  /\ pc' = [pc EXCEPT ![p] = "idle"]
  /\ op' = [op EXCEPT ![p] = "none"]
  /\ get' = [get EXCEPT ![p] = "nil"]
  /\ time' = [time EXCEPT ![p] = NilTimer]
  /\ exp' = [exp EXCEPT ![p] = NilExpirer]
  /\ arg' = [arg EXCEPT ![p] = ZeroTimed]
  /\ lval' = [lval EXCEPT ![p] = ZeroTimed]
  /\ ret' = [ret EXCEPT ![p] = ZeroTimed]
  /\ res' = [res EXCEPT ![p] = NoOutcome]
  /\ path' = [path EXCEPT ![p] = "none"]
  /\ gres' = [gres EXCEPT ![p] = NoOutcome]
  /\ tres' = [tres EXCEPT ![p] = NoOutcome]
  /\ ninv' = [ninv EXCEPT ![p] = NoInvocations]
  /\ UNCHANGED <<val, lockW, readers, s0, w0, now, prev>>

\* ---------------------------------------------------------------- specification
Next ==
  \E p \in Procs :
    \/ CallGetTimed(p)
    \/ CallGet(p)
    \/ CallSetTimed(p)
    \/ CallZero(p)
    \/ CallDedup(p)
    \/ RLock(p)
    \/ ReadVal(p)
    \/ RUnlock(p)
    \/ Lock(p)
    \/ LockDrained(p)
    \/ WriteEither(p)
    \/ WriteTime(p)
    \/ Unlock(p)
    \/ Recheck(p)
    \/ SetGetter(p)
    \/ GetterDone(p)
    \/ SetTimer(p)
    \/ TimerDone(p)
    \/ ReturnVal(p)
    \/ DedupUnlock(p)
    \/ Finish(p)

Spec == Init /\ [][Next]_vars

\* ---------------------------------------------------------------- contention
\* N callers, one Dedup call each, on a Mem whose state is expired under the
\* policy they share, with timers whose every refreshed state is fresh under
\* that policy (the policies of the package look at the timestamp only).

\* The timestamps SetTimer can leave, from a state stamped t0.
StampsOf(tm, t0) ==
  IF tm.k = "nil" THEN {ZeroTime}
  ELSE {IF o.k = "ret" THEN o.t ELSE t0 : o \in TimeOutcomes(tm)}

FreshAfterRefresh(e, tm) ==
  \A t0 \in Times : \A t \in StampsOf(tm, t0), v \in Vals :
    ~IsExpired(e, MakeTimed(v, t))

ContendTimers(e) ==
  {tm \in Timers \cup {InstTimer(t) : t \in Times} : FreshAfterRefresh(e, tm)}

InitContend ==
  \E v \in TimedVals, e \in Expirers :
    /\ IsExpired(e, v)
    /\ ContendTimers(e) # {}
    /\ NewMem(v)
    /\ Idle(e)

CallDedupContend(p) ==
  /\ op[p] = "none"
  /\ \E tm \in ContendTimers(exp[p]) :
       Enter(p, "Dedup", "rlock", "fn", tm, exp[p], ZeroTimed)

NextContend ==
  \E p \in Procs :
    \/ CallDedupContend(p)
    \/ RLock(p)
    \/ ReadVal(p)
    \/ RUnlock(p)
    \/ Lock(p)
    \/ LockDrained(p)
    \/ Recheck(p)
    \/ SetGetter(p)
    \/ GetterDone(p)
    \/ SetTimer(p)
    \/ TimerDone(p)
    \/ ReturnVal(p)
    \/ DedupUnlock(p)

SpecContend == InitContend /\ [][NextContend]_vars

\* ---------------------------------------------------------------- sequential use
\* One goroutine makes call after call; nobody else uses the Mem, so the
\* lock is always free when asked for.
Caller == 1

NextSeq ==
  \/ CallGetTimed(Caller)
  \/ CallGet(Caller)
  \/ CallSetTimed(Caller)
  \/ CallZero(Caller)
  \/ CallDedup(Caller)
  \/ RLock(Caller)
  \/ ReadVal(Caller)
  \/ RUnlock(Caller)
  \/ Lock(Caller)
  \/ WriteEither(Caller)
  \/ WriteTime(Caller)
  \/ Unlock(Caller)
  \/ Recheck(Caller)
  \/ SetGetter(Caller)
  \/ GetterDone(Caller)
  \/ SetTimer(Caller)
  \/ TimerDone(Caller)
  \/ ReturnVal(Caller)
  \/ DedupUnlock(Caller)
  \/ Finish(Caller)

SpecSeq == Init /\ [][NextSeq]_vars

\* ---------------------------------------------------------------- readers and replacers
\* GetTimed against SetTimed and Zero. The states written differ from each
\* other in the payload and in the timestamp, so that a payload of one paired
\* with the timestamp of another is none of them.
SnapStates == {ZeroTimed, MakeTimed("v1", MaxTime)}

InitSnap == \E v \in SnapStates : NewMem(v) /\ Idle(NilExpirer)

CallSetTimedSnap(p) ==
  \E a \in SnapStates : Enter(p, "SetTimed", "lock", "nil", NilTimer, NilExpirer, a)

NextSnap ==
  \E p \in Procs :
    \/ CallGetTimed(p)
    \/ CallSetTimedSnap(p)
    \/ CallZero(p)
    \/ RLock(p)
    \/ ReadVal(p)
    \/ RUnlock(p)
    \/ Lock(p)
    \/ LockDrained(p)
    \/ WriteEither(p)
    \/ WriteTime(p)
    \/ Unlock(p)
    \/ Finish(p)

SpecSnap == InitSnap /\ [][NextSnap]_vars

\* ---------------------------------------------------------------- shared access
\* Goroutines that make one call each on one Mem: GetTimed, SetTimed, or a
\* Dedup with nil getter and timer; enough of them for one to hold the read
\* lock, one to ask for the write lock and one to arrive after both.
Sharers == 1..NumSharers

\* The policies of the callers of Dedup: one never expires anything, one
\* expires every state with a timestamp after the zero time.
SharedExpirers == {BoolExpirer(FALSE), InstExpirer(ZeroTime)}

InitShared == \E v \in SnapStates : NewMem(v) /\ IdleOf(Sharers, NilExpirer)

CallDedupShared(p) ==
  \E e \in SharedExpirers : Enter(p, "Dedup", "rlock", "nil", NilTimer, e, ZeroTimed)

CallOnce(p) ==
  /\ op[p] = "none"
  /\ \/ CallGetTimed(p)
     \/ CallSetTimedSnap(p)
     \/ CallDedupShared(p)

NextShared ==
  \E p \in Sharers :
    \/ CallOnce(p)
    \/ RLock(p)
    \/ ReadVal(p)
    \/ RUnlock(p)
    \/ Lock(p)
    \/ LockDrained(p)
    \/ WriteEither(p)
    \/ WriteTime(p)
    \/ Unlock(p)
    \/ Recheck(p)
    \/ SetGetter(p)
    \/ SetTimer(p)
    \/ ReturnVal(p)
    \/ DedupUnlock(p)

SpecShared == InitShared /\ [][NextShared]_vars

\* ---------------------------------------------------------------- package helpers
\* A goroutine calls the package functions Get, Time and IsExpired with nil
\* and non-nil capabilities. A non-nil getter is one whose Get() does o:
\* gres records o, what a direct call val.Get() gives; tres records what
\* the call val.Time() made by Time did.
HelperTimers == Timers \cup {InstTimer(t) : t \in Times}

CallPkgGet(p) ==
  \E g \in Getters : Enter(p, "pkg.Get", "pkgget", g, NilTimer, NilExpirer, ZeroTimed)

CallPkgTime(p) ==
  \E tm \in HelperTimers : Enter(p, "pkg.Time", "pkgtime", "nil", tm, NilExpirer, ZeroTimed)

CallPkgIsExpired(p) ==
  \E e \in Expirers, a \in TimedVals :
    Enter(p, "pkg.IsExpired", "pkgexp", "nil", NilTimer, e, a)

PkgGetDone(p) ==
  /\ pc[p] = "pkgget"
  /\ \E o \in GetOutcomes :
       gres' = [gres EXCEPT ![p] = IF get[p] = "nil" THEN NoOutcome ELSE o]
  /\ res' = [res EXCEPT ![p] = PkgGet(get[p])]
  /\ pc' = [pc EXCEPT ![p] = "done"]
  /\ UNCHANGED <<val, lockW, readers, op, locals, lval, ret, path, tres, ninv, s0, w0, now, prev>>

PkgTimeDone(p) ==
  /\ pc[p] = "pkgtime"
  /\ \E o \in TimeOutcomes(time[p]) :
       /\ tres' = [tres EXCEPT ![p] = IF time[p].k = "nil" THEN NoOutcome ELSE o]
       /\ res' = [res EXCEPT ![p] = PkgTime(time[p], o)]
  /\ pc' = [pc EXCEPT ![p] = "done"]
  /\ UNCHANGED <<val, lockW, readers, op, locals, lval, ret, path, gres, ninv, s0, w0, now, prev>>

PkgIsExpiredDone(p) ==
  /\ pc[p] = "pkgexp"
  /\ res' = [res EXCEPT ![p] = ReturnedBool(IsExpired(exp[p], arg[p]))]
  /\ pc' = [pc EXCEPT ![p] = "done"]
  /\ UNCHANGED <<val, lockW, readers, op, locals, lval, ret, hist, s0, w0, now, prev>>

\* A goroutine takes a zero Either of its own (lval), stores a payload in
\* it with Set and calls Unwrap or Get on it.
CallEitherUnwrap(p) ==
  \E v \in Vals :
    Enter(p, "Either.Unwrap", "eset", "nil", NilTimer, NilExpirer, MakeTimed(v, ZeroTime))

CallEitherGet(p) ==
  \E v \in Vals :
    Enter(p, "Either.Get", "eset", "nil", NilTimer, NilExpirer, MakeTimed(v, ZeroTime))

\* Either.Set: self[0] = val.
EitherSet(p) ==
  /\ pc[p] = "eset"
  /\ lval' = [lval EXCEPT ![p].v = arg[p].v]
  /\ pc' = [pc EXCEPT ![p] = IF op[p] = "Either.Unwrap" THEN "eunwrap" ELSE "eget"]
  /\ UNCHANGED <<val, lockW, readers, op, locals, ret, res, hist, s0, w0, now, prev>>

EitherUnwrapDone(p) ==
  /\ pc[p] = "eunwrap"
  /\ res' = [res EXCEPT ![p] = ReturnedPair(Unwrap(lval[p].v))]
  /\ pc' = [pc EXCEPT ![p] = "done"]
  /\ UNCHANGED <<val, lockW, readers, op, locals, lval, ret, hist, s0, w0, now, prev>>

EitherGetDone(p) ==
  /\ pc[p] = "eget"
  /\ res' = [res EXCEPT ![p] = EitherGet(lval[p].v)]
  /\ pc' = [pc EXCEPT ![p] = "done"]
  /\ UNCHANGED <<val, lockW, readers, op, locals, lval, ret, hist, s0, w0, now, prev>>

NextHelpers ==
  \/ CallPkgGet(Caller)
  \/ CallPkgTime(Caller)
  \/ CallPkgIsExpired(Caller)
  \/ PkgGetDone(Caller)
  \/ PkgTimeDone(Caller)
  \/ PkgIsExpiredDone(Caller)
  \/ CallEitherUnwrap(Caller)
  \/ CallEitherGet(Caller)
  \/ EitherSet(Caller)
  \/ EitherUnwrapDone(Caller)
  \/ EitherGetDone(Caller)
  \/ Finish(Caller)

SpecHelpers == Init /\ [][NextHelpers]_vars

\* ---------------------------------------------------------------- expiry over time
\* One goroutine calls Dedup again and again with Duration policies while
\* the clock advances.
Tick ==
  /\ now < MaxTime
  /\ now' = now + 1
  /\ UNCHANGED <<val, lockW, readers, pc, op, locals, lval, ret, res, hist, s0, w0, prev>>

DurTimers == {NilTimer, NowTimer, FnTimer}

CallDedupDur(p) ==
  \E g \in Getters, tm \in DurTimers, d \in Durations :
    Enter(p, "Dedup", "rlock", g, tm, DurationExpirer(d), ZeroTimed)

NextDur ==
  \/ Tick
  \/ CallDedupDur(Caller)
  \/ RLock(Caller)
  \/ ReadVal(Caller)
  \/ RUnlock(Caller)
  \/ Lock(Caller)
  \/ Recheck(Caller)
  \/ SetGetter(Caller)
  \/ GetterDone(Caller)
  \/ SetTimer(Caller)
  \/ TimerDone(Caller)
  \/ ReturnVal(Caller)
  \/ DedupUnlock(Caller)
  \/ Finish(Caller)

SpecDur == Init /\ [][NextDur]_vars

\* ---------------------------------------------------------------- policies of the user
\* Goroutines call GetTimed, SetTimed, Zero and Dedup again and again; the
\* policy of a Dedup call is absent or is code of the user, which answers
\* either way or panics, at the first check and at the re-check alike.
PolicyExpirers == {NilExpirer, FnExpirer}

\* The getter and the timer of a Dedup call: one of them is code of the
\* user, the other is absent.
PolicyCalls == {<<"fn", NilTimer>>, <<"nil", FnTimer>>}

InitPolicy == NewMem(ZeroTimed) /\ Idle(NilExpirer)

CallDedupPolicy(p) ==
  \E c \in PolicyCalls, e \in PolicyExpirers :
    Enter(p, "Dedup", "rlock", c[1], c[2], e, ZeroTimed)

NextPolicy ==
  \E p \in Procs :
    \/ CallGetTimed(p)
    \/ CallSetTimedSnap(p)
    \/ CallZero(p)
    \/ CallDedupPolicy(p)
    \/ RLock(p)
    \/ ReadVal(p)
    \/ RUnlock(p)
    \/ Lock(p)
    \/ LockDrained(p)
    \/ WriteEither(p)
    \/ WriteTime(p)
    \/ Unlock(p)
    \/ Recheck(p)
    \/ SetGetter(p)
    \/ GetterDone(p)
    \/ SetTimer(p)
    \/ TimerDone(p)
    \/ ReturnVal(p)
    \/ DedupUnlock(p)
    \/ Finish(p)

SpecPolicy == InitPolicy /\ [][NextPolicy]_vars

\* The steps of a call that need nothing but the goroutine to be scheduled:
\* the code of the package between lock operations, and the getter, timer
\* and policy of the user, each of which ends.
Proceeds(p) ==
  \/ ReadVal(p)
  \/ RUnlock(p)
  \/ LockDrained(p)
  \/ WriteEither(p)
  \/ WriteTime(p)
  \/ Unlock(p)
  \/ Recheck(p)
  \/ SetGetter(p)
  \/ GetterDone(p)
  \/ SetTimer(p)
  \/ TimerDone(p)
  \/ ReturnVal(p)
  \/ DedupUnlock(p)

\* Every goroutine inside a call is scheduled, and sync.RWMutex starves
\* nobody: a goroutine that asks for the lock again and again while it
\* becomes free again and again gets it.
FairPolicy ==
  \A p \in Procs :
    /\ WF_vars(Proceeds(p))
    /\ SF_vars(RLock(p))
    /\ SF_vars(Lock(p))

SpecLive == SpecPolicy /\ FairPolicy

\* ---------------------------------------------------------------- policies that panic
\* Goroutines call GetTimed, SetTimed and Dedup again and again; the policy
\* of a Dedup call is absent or is the one that panics on a stored failure.
\* Failures get stored by the refreshes of the calls without a policy.
RaisingExpirers == {NilExpirer, StrictExpirer}

CallDedupRaise(p) ==
  \E c \in PolicyCalls, e \in RaisingExpirers :
    Enter(p, "Dedup", "rlock", c[1], c[2], e, ZeroTimed)

NextRaise ==
  \E p \in Procs :
    \/ CallGetTimed(p)
    \/ CallSetTimedSnap(p)
    \/ CallDedupRaise(p)
    \/ RLock(p)
    \/ ReadVal(p)
    \/ RUnlock(p)
    \/ Lock(p)
    \/ LockDrained(p)
    \/ WriteEither(p)
    \/ WriteTime(p)
    \/ Unlock(p)
    \/ Recheck(p)
    \/ SetGetter(p)
    \/ GetterDone(p)
    \/ SetTimer(p)
    \/ TimerDone(p)
    \/ ReturnVal(p)
    \/ DedupUnlock(p)
    \/ Finish(p)

SpecRaise == InitPolicy /\ [][NextRaise]_vars

\* ---------------------------------------------------------------- refresh after refresh
\* One goroutine calls Dedup again and again, with every getter, timer and
\* policy of the package; nobody else uses the Mem, so the stored state at
\* the start of a call is what the latest refresh left.
NextFail ==
  \/ CallDedup(Caller)
  \/ RLock(Caller)
  \/ ReadVal(Caller)
  \/ RUnlock(Caller)
  \/ Lock(Caller)
  \/ Recheck(Caller)
  \/ SetGetter(Caller)
  \/ GetterDone(Caller)
  \/ SetTimer(Caller)
  \/ TimerDone(Caller)
  \/ ReturnVal(Caller)
  \/ DedupUnlockNoted(Caller)
  \/ Finish(Caller)

SpecFail == Init /\ [][NextFail]_vars

\* ---------------------------------------------------------------- properties
\* The processes whose getter invocation, made by Dedup, is in flight.
InFlight == {p \in Procs : pc[p] = "getting"}

\* C1: in every interleaving of Dedup, GetTimed, Get, SetTimed and Zero calls
\* on one Mem, at most one getter invocation made by Dedup is in flight.
C1_OneRefreshInFlight == Cardinality(InFlight) <= 1

\* A getter is in flight while another Dedup call, which also found the
\* state expired, waits for the write lock.
C1_Witness ==
  \E p, q \in Procs :
    /\ p # q
    /\ pc[p] = "getting"
    /\ op[q] = "Dedup" /\ pc[q] = "lock" /\ get[q] = "fn"

\* C2: N concurrent Dedup calls on a Mem whose state is expired under their
\* policy, every refreshed state being fresh under it: never more than one
\* getter invocation overall, and once all calls have returned exactly one
\* caller has invoked the getter, once, and all hold the same state, the
\* stored one.
AllReturned == \A p \in Procs : pc[p] = "done"
Invokers == {p \in Procs : ninv[p].g > 0}

C2_ExactlyOneRefresh ==
  /\ Cardinality(Invokers) <= 1
  /\ \A p \in Procs : ninv[p].g <= 1
  /\ AllReturned =>
       /\ Cardinality(Invokers) = 1
       /\ \A p \in Procs : ret[p] = val /\ res[p] = Returned("nil")
       /\ \A p \in Procs : ~IsExpired(exp[p], ret[p])

\* All calls have returned; one refreshed, another found the state expired
\* at first and fresh under the write lock.
C2_Witness ==
  /\ AllReturned
  /\ \E p, q \in Procs : path[p] = "refresh" /\ path[q] = "recheck"

\* C3: sequential calls. A Dedup call made while the stored state S is not
\* expired under its policy never leaves the read path, invokes neither the
\* getter nor the timer, leaves S stored, and returns exactly S; so does
\* every repetition.
PolicyFresh(e, timed) == e.k # "nil" /\ ~ExpirerIsExpired(e, timed)

C3_FreshRead ==
  (op[Caller] = "Dedup" /\ PolicyFresh(exp[Caller], s0)) =>
    /\ val = s0
    /\ ninv[Caller] = NoInvocations
    /\ gres[Caller] = NoOutcome /\ tres[Caller] = NoOutcome
    /\ pc[Caller] \in {"rlock", "read", "runlock", "done"}
    /\ pc[Caller] = "done" =>
         ret[Caller] = s0 /\ res[Caller] = Returned("nil") /\ path[Caller] = "fast"

\* A Dedup call has returned a cached failure that its policy deems fresh.
C3_Witness ==
  /\ op[Caller] = "Dedup" /\ pc[Caller] = "done"
  /\ exp[Caller] = InstExpirer(MaxTime)
  /\ PolicyFresh(exp[Caller], s0)
  /\ IsError(s0.v) /\ s0.t = MaxTime
  /\ ret[Caller] = s0

\* C4: a Dedup call that found its first snapshot expired and now holds the
\* write lock (pc "recheck"): if the stored state is not expired under its
\* policy, its next step settles the stored state as the result, with no
\* getter or timer invocation and no write; and a call that is about to
\* unlock after such a re-check holds the stored, fresh state as its result.
C4_Settled(p) ==
  /\ pc'[p] = "dunlock"
  /\ ret'[p] = val
  /\ val' = val
  /\ ninv'[p] = NoInvocations

C4_DoubleCheckedUpgrade ==
  /\ [][\A p \in Procs :
          (pc[p] = "recheck" /\ pc'[p] # "recheck" /\ PolicyFresh(exp[p], val))
            => C4_Settled(p)]_vars
  /\ [](\A p \in Procs :
          (pc[p] = "dunlock" /\ path[p] = "recheck") =>
             ret[p] = val /\ PolicyFresh(exp[p], ret[p]) /\ ninv[p] = NoInvocations)

\* A call about to unlock after a re-check that found the state fresh,
\* while a SetTimed call of another process has just returned.
C4_Witness ==
  \E p, q \in Procs :
    /\ pc[p] = "dunlock" /\ path[p] = "recheck"
    /\ ret[p] = val /\ PolicyFresh(exp[p], val)
    /\ q # p /\ op[q] = "SetTimed" /\ pc[q] = "done"

\* C5: sequential calls, getter and timer not panicking. When Dedup returns
\* R the stored state is R. If the policy is absent or deems the prior state
\* S0 expired, R is (what the getter returned, what the timer returned),
\* nil for an absent getter and the zero time for an absent timer, whatever
\* S0 was; otherwise R is S0.
NewVal(p) == IF get[p] = "nil" THEN "nil" ELSE gres[p].v
NewTime(p) == IF time[p].k = "nil" THEN ZeroTime ELSE tres[p].t
Returning(p) == op[p] = "Dedup" /\ pc[p] \in {"dunlock", "done"}

C5_SequentialResult ==
  Returning(Caller) =>
    /\ ret[Caller] = val
    /\ IF PolicyFresh(exp[Caller], s0)
       THEN ret[Caller] = s0
       ELSE /\ path[Caller] = "refresh"
            /\ (/\ pc[Caller] = "dunlock"
                /\ gres[Caller].k # "panic"
                /\ tres[Caller].k # "panic")
               => ret[Caller] = MakeTimed(NewVal(Caller), NewTime(Caller))

\* A refresh with absent getter and timer over a stored failure with a
\* non-zero timestamp returns the empty state.
C5_Witness ==
  /\ Returning(Caller) /\ pc[Caller] = "dunlock"
  /\ get[Caller] = "nil" /\ time[Caller] = NilTimer
  /\ s0 = MakeTimed("errE", MaxTime)
  /\ ret[Caller] = ZeroTimed

\* C6: a GetTimed call concurrent with SetTimed and Zero calls returns the
\* initial state or a state that was written, whole: never the payload of
\* one with the timestamp of another.
C6_SnapshotAtomicity ==
  \A p \in Procs :
    /\ (op[p] = "GetTimed" /\ pc[p] = "done") => ret[p] \in SnapStates
    /\ (op[p] = "GetTimed" /\ pc[p] = "runlock") => lval[p] \in SnapStates

\* A GetTimed call waits for the read lock while a SetTimed call has
\* written the payload and not yet the timestamp: the stored pair is mixed.
C6_Witness ==
  \E p, q \in Procs :
    /\ op[p] = "GetTimed" /\ pc[p] = "rlock"
    /\ op[q] = "SetTimed" /\ pc[q] = "write2"
    /\ val \notin SnapStates

\* C7: whatever the getter and the timer do, panic included, Dedup returns
\* normally, as GetTimed, SetTimed and Zero always do; a process outside a
\* call holds the lock in no way; and the Timed that a refreshing Dedup
\* returns carries the value the timer panicked with if it did, else the
\* value the getter panicked with or the error it returned (a panic whose
\* recovered value is nil carries no failure).
Raised(o) == o.k = "panic" /\ o.v # "nil"
Failed(o) == Raised(o) \/ (o.k = "ret" /\ IsError(o.v))

C7_FailuresCaptured ==
  \A p \in Procs :
    /\ (pc[p] = "done" /\ op[p] # "Get") => res[p] = Returned("nil")
    /\ pc[p] \in {"idle", "done"} => (lockW # p /\ p \notin readers)
    /\ (pc[p] = "dunlock" /\ Raised(tres[p])) => ret[p].v = tres[p].v
    /\ (pc[p] = "dunlock" /\ ~Raised(tres[p]) /\ Failed(gres[p]))
         => ret[p].v = gres[p].v

\* A refreshing Dedup whose getter and timer both panicked is about to
\* unlock and return, while the call another process made has returned.
C7_Witness ==
  \E p, q \in Procs :
    /\ pc[p] = "dunlock"
    /\ gres[p] = Panicked("errE") /\ tres[p] = Panicked("errF")
    /\ ret[p].v = "errF"
    /\ q # p /\ pc[q] = "done"

\* C8: while a failure E is stored, the snapshot a reader takes is the
\* stored state, Mem.Get on it panics with exactly E, and so does Get on
\* every snapshot that GetTimed or Dedup returned, for every caller; the
\* stored state changes only by a step of a writer holding the write lock.
WriterPcs == {"write1", "write2", "setget", "getting", "settime", "timing"}

C8_FailureReplay ==
  /\ [](\A p \in Procs :
          /\ (op[p] \in {"Get", "GetTimed"} /\ pc[p] = "runlock") => lval[p] = val
          /\ (op[p] = "Get" /\ pc[p] = "done" /\ IsError(ret[p].v))
               => res[p] = Panicked(ret[p].v)
          /\ (op[p] \in {"GetTimed", "Dedup"} /\ pc[p] = "done" /\ IsError(ret[p].v))
               => EitherGet(ret[p].v) = Panicked(ret[p].v))
  /\ [][(IsError(val.v) /\ val' # val)
          => \E p \in Procs : lockW = p /\ pc[p] \in WriterPcs]_vars

\* Two Mem.Get calls have both panicked with the failure that is stored.
C8_Witness ==
  \E p, q \in Procs :
    /\ p # q
    /\ op[p] = "Get" /\ pc[p] = "done" /\ res[p] = Panicked("errE")
    /\ op[q] = "Get" /\ pc[q] = "done" /\ res[q] = Panicked("errE")
    /\ val.v = "errE"

\* C9: when the timer panics with a failure F during a refresh, the stored payload is
\* F, whatever the getter had produced, the stored timestamp is the one that
\* was stored when the refresh began, and Dedup returns that state.
C9_ClockFailure ==
  \A p \in Procs :
    (pc[p] \in {"return", "dunlock"} /\ Raised(tres[p])) =>
      /\ val.v = tres[p].v
      /\ val.t = lval[p].t
      /\ pc[p] = "dunlock" => ret[p] = val

\* The getter returned a value, the timer panicked; the state before the
\* refresh had a non-zero timestamp.
C9_Witness ==
  \E p \in Procs :
    /\ pc[p] = "dunlock"
    /\ gres[p] = Returned("v1") /\ tres[p] = Panicked("errF")
    /\ lval[p].t = MaxTime
    /\ ret[p] = MakeTimed("errF", MaxTime)

\* C10: a Dedup call with a nil Expirer never returns by the read path or
\* after the re-check: it takes the write lock, invokes the getter and the
\* timer it was given, once each, and returns the state it wrote.
C10_NilPolicyRefreshes ==
  \A p \in Procs :
    (op[p] = "Dedup" /\ exp[p].k = "nil") =>
      /\ path[p] \in {"none", "refresh"}
      /\ pc[p] \in {"dunlock", "done"} => path[p] = "refresh"
      /\ pc[p] = "dunlock" =>
           /\ lockW = p
           /\ ninv[p] = [g |-> IF get[p] = "nil" THEN 0 ELSE 1,
                         t |-> IF time[p].k = "nil" THEN 0 ELSE 1]
           /\ ret[p] = val
           /\ (gres[p].k # "panic" /\ tres[p].k # "panic")
                => val = MakeTimed(NewVal(p), NewTime(p))

\* A Dedup call with a nil Expirer has refreshed over a stored plain value
\* with the latest timestamp, invoking both getter and timer.
C10_Witness ==
  \E p \in Procs :
    /\ op[p] = "Dedup" /\ exp[p].k = "nil" /\ pc[p] = "dunlock"
    /\ lval[p] = MakeTimed("v1", MaxTime)
    /\ ninv[p] = [g |-> 1, t |-> 1]

\* C11: SetGetter(nil) stores nil whatever was stored, so that Get returns
\* nil and does not panic, and leaves the timestamp; SetTimer(nil) stores
\* the zero time and leaves the payload; a refresh with nil getter and nil
\* timer leaves the Mem in the state Timed{} and returns it.
C11_AbsentDefaults ==
  /\ [][(pc[Caller] = "setget" /\ get[Caller] = "nil" /\ pc'[Caller] # "setget")
          => /\ val' = [val EXCEPT !.v = "nil"]
             /\ EitherGet(val'.v) = Returned("nil")
             /\ ninv'[Caller] = NoInvocations]_vars
  /\ [][(pc[Caller] = "settime" /\ time[Caller].k = "nil" /\ pc'[Caller] # "settime")
          => /\ val' = [val EXCEPT !.t = ZeroTime]
             /\ ninv'[Caller].t = 0]_vars
  /\ []((pc[Caller] \in {"return", "dunlock"} /\ get[Caller] = "nil" /\ time[Caller].k = "nil")
          => val = ZeroTimed)
  /\ []((pc[Caller] = "dunlock" /\ path[Caller] = "refresh"
            /\ get[Caller] = "nil" /\ time[Caller].k = "nil")
          => ret[Caller] = ZeroTimed)

\* SetTimer(nil) has just run after SetGetter(nil), over a stored plain
\* value with a non-zero timestamp.
C11_Witness ==
  /\ pc[Caller] = "return"
  /\ get[Caller] = "nil" /\ time[Caller].k = "nil"
  /\ lval[Caller] = MakeTimed("v1", MaxTime)
  /\ val = ZeroTimed

\* C12: a GetTimed, Get or Dedup call that began while the getter of another
\* Dedup call was running takes its snapshot only when no call is inside an
\* exclusive section, so after that refresh has ended, whatever the
\* caller's policy says of the state before the refresh; until then it waits
\* for the read lock and has no result; the snapshot is the state stored at
\* that moment.
ExclusivePcs == {"recheck", "setget", "getting", "settime", "timing", "return",
                 "dunlock", "write1", "write2", "unlock"}

C12_ReadersWaitForWriter ==
  \A p \in Procs :
    /\ w0[p] # NoProc => /\ pc[p] \in {"rlock", "read", "runlock"}
                         /\ res[p] = NoOutcome /\ ret[p] = ZeroTimed
    /\ (w0[p] # NoProc /\ pc[w0[p]] \in ExclusivePcs) => pc[p] = "rlock"
    /\ pc[p] \in {"read", "runlock"} => \A q \in Procs : pc[q] \notin ExclusivePcs
    /\ pc[p] = "runlock" => lval[p] = val

\* A Dedup call whose policy never expires anything began while a refresh
\* was running, over a state that the refresh then replaced by another; its
\* snapshot is the state the refresh returned.
C12_Witness ==
  \E p, q \in Procs :
    /\ w0[p] = q /\ pc[p] = "runlock" /\ op[p] = "Dedup"
    /\ exp[p] = BoolExpirer(FALSE)
    /\ op[q] = "Dedup" /\ pc[q] = "done" /\ path[q] = "refresh"
    /\ s0 # ret[q]
    /\ lval[p] = ret[q]

\* C13 as stated: a GetTimed call or a Dedup call on its read path is never
\* kept from a step by readers, its snapshot is the stored state, a Dedup
\* returning by the read path returns it, and the call waits for the read
\* lock only while a writer is inside its exclusive section.
ReadersProceed ==
  \A p \in Sharers :
    /\ (pc[p] = "rlock" /\ \A q \in Sharers : pc[q] \notin ExclusivePcs \cup {"drain"})
         => ENABLED RLock(p)
    /\ pc[p] = "read" => ENABLED ReadVal(p)
    /\ pc[p] = "runlock" => (ENABLED RUnlock(p) /\ lval[p] = val)
    /\ (pc[p] = "done" /\ path[p] = "fast")
         => (PolicyFresh(exp[p], ret[p]) /\ res[p] = Returned("nil"))

C13_BlockedOnlyByHolder ==
  /\ ReadersProceed
  /\ \A p \in Sharers :
       (pc[p] = "rlock" /\ ~ENABLED RLock(p))
         => \E q \in Sharers : lockW = q /\ pc[q] \in ExclusivePcs

\* C13, amended: the same, but the call waits for the read lock only while
\* a writer is inside its exclusive section or has asked for the write lock
\* and waits for the readers inside to leave.
C13_ReadersShare ==
  /\ ReadersProceed
  /\ \A p \in Sharers :
       (pc[p] = "rlock" /\ ~ENABLED RLock(p))
         => \E q \in Sharers : lockW = q /\ pc[q] \in ExclusivePcs \cup {"drain"}

\* Every goroutine is inside the read section of a Dedup call whose policy
\* deems the stored state fresh, each with the stored state as its snapshot.
C13_Witness ==
  /\ readers = Sharers
  /\ \A p \in Sharers :
       /\ op[p] = "Dedup" /\ pc[p] = "runlock"
       /\ lval[p] = val /\ PolicyFresh(exp[p], val)

\* C14: when SetTimed(S) is about to unlock the stored state is S, Timed{}
\* for Zero; when a Dedup is about to unlock, the state it returns is the
\* stored state; the snapshot of a reader is the stored state and is what
\* GetTimed or a Dedup on its read path returns; and the stored state
\* changes only by a step of a writer that owns the write lock, so that
\* between two writes every reader returns the same state, initially the
\* state the Mem was made with.
C14_ReadLatestWrite ==
  /\ [](\A p \in Procs :
          /\ pc[p] = "unlock" => (val = arg[p] /\ (op[p] = "Zero" => val = ZeroTimed))
          /\ pc[p] = "dunlock" => ret[p] = val
          /\ pc[p] = "runlock" => lval[p] = val)
  /\ [][\A p \in Procs :
          (pc[p] = "runlock" /\ pc'[p] = "done") => (ret'[p] = val /\ val' = val)]_vars
  /\ [][val' # val => \E p \in Procs : lockW = p /\ pc[p] \in WriterPcs]_vars

\* A refreshing Dedup has returned a failure with a non-zero timestamp, and
\* a GetTimed call of another goroutine has returned the same state.
C14_Witness ==
  \E p, q \in Procs :
    /\ op[q] = "Dedup" /\ pc[q] = "done" /\ path[q] = "refresh"
    /\ ret[q] = MakeTimed("errE", MaxTime)
    /\ op[p] = "GetTimed" /\ pc[p] = "done"
    /\ ret[p] = ret[q] /\ val = ret[p]

\* C15: for a non-nil getter g, Get(g) gives what g.Get() gives, and
\* Get(nil) returns nil; Time(t) gives what t.Time() gives for a non-nil t
\* and returns the zero time for nil; IsExpired(e, s) returns
\* e.IsExpired(s) for a non-nil e and true for nil.
GetAgrees ==
  \A p \in Procs :
    (op[p] = "pkg.Get" /\ pc[p] = "done") =>
      res[p] = IF get[p] = "nil" THEN Returned("nil") ELSE gres[p]

TimeAgrees ==
  \A p \in Procs :
    (op[p] = "pkg.Time" /\ pc[p] = "done") =>
      res[p] = IF time[p].k = "nil" THEN ReturnedTime(ZeroTime) ELSE tres[p]

IsExpiredAgrees ==
  \A p \in Procs :
    (op[p] = "pkg.IsExpired" /\ pc[p] = "done") =>
      res[p] = IF exp[p].k = "nil" THEN ReturnedBool(TRUE)
               ELSE ReturnedBool(ExpirerIsExpired(exp[p], arg[p]))

C15_HelpersAgree == GetAgrees /\ TimeAgrees /\ IsExpiredAgrees

\* C16: SetGetter never panics, and for every error E and every prior
\* payload, after SetGetter with a getter that panics with E the container
\* is as after SetGetter with a getter that returns E: the payload is E, the
\* timestamp is untouched, and Get on it panics with E.
C16_RaisingEqualsReturning ==
  [][(pc[Caller] = "getting" /\ pc'[Caller] # "getting") =>
       /\ pc'[Caller] = "settime" /\ lockW' = lockW /\ res'[Caller] = NoOutcome
       /\ val'.t = val.t
       /\ \A E \in Errors :
            gres'[Caller] \in {Panicked(E), Returned(E)} =>
              (val'.v = E /\ EitherGet(val'.v) = Panicked(E))]_vars

\* The getter has panicked with an error over a stored other error.
C16_Witness ==
  /\ pc[Caller] = "settime"
  /\ gres[Caller] = Panicked("errE")
  /\ lval[Caller].v = "errF"
  /\ val.v = "errE"

\* C17: in a refreshing Dedup the getter is invoked first, at most once, and
\* the timer only after the getter invocation has ended, at most once; from
\* SetGetter to the deferred Unlock the call owns the write lock, no other
\* call is inside a read section or an exclusive section, and between the
\* two steps the stored state is what this call's SetGetter left: its new
\* payload with the timestamp from before the refresh.
RefreshPcs == {"setget", "getting", "settime", "timing", "return"}

\* The payload SetGetter leaves, over the state before the refresh.
AfterGetter(p) ==
  IF get[p] = "nil" THEN "nil"
  ELSE IF gres[p].k = "ret" \/ gres[p].v # "nil" THEN gres[p].v
  ELSE lval[p].v

C17_RefreshOrder ==
  \A p \in Procs :
    /\ pc[p] \in RefreshPcs =>
         /\ lockW = p /\ readers = {} /\ path[p] = "refresh"
         /\ \A q \in Procs \ {p} : pc[q] \notin ExclusivePcs \cup {"read", "runlock"}
    /\ pc[p] = "setget" => (ninv[p] = NoInvocations /\ val = lval[p])
    /\ pc[p] = "getting" =>
         (ninv[p] = [g |-> 1, t |-> 0] /\ gres[p] = NoOutcome /\ val = lval[p])
    /\ pc[p] \in {"settime", "timing"} =>
         /\ get[p] # "nil" => (ninv[p].g = 1 /\ gres[p] # NoOutcome)
         /\ ninv[p].t = (IF pc[p] = "timing" THEN 1 ELSE 0)
         /\ tres[p] = NoOutcome
         /\ val = MakeTimed(AfterGetter(p), lval[p].t)

\* The timer of a refresh is running over the intermediate state, a new
\* value with the timestamp from before the refresh, while a GetTimed call
\* waits for the read lock.
C17_Witness ==
  \E p, q \in Procs :
    /\ pc[p] = "timing" /\ gres[p] = Returned("v1")
    /\ lval[p] = MakeTimed("errE", MaxTime)
    /\ val = MakeTimed("v1", MaxTime)
    /\ op[q] = "GetTimed" /\ pc[q] = "rlock"

\* C18: a call at a position where it writes Mem.val, or reads it in Dedup
\* after Lock, owns the write lock and is past the wait for the readers; a
\* call at the position where GetTimed reads Mem.val holds the read lock;
\* the read lock is held only inside a read section; and while a call is
\* inside its exclusive section no call holds the read lock and no other
\* call is inside an exclusive section.
SharedPcs == {"read", "runlock"}
ReadsUnderLock == {"recheck", "return"}

InExclusive(p) == pc[p] \in ExclusivePcs

C18_LockDiscipline ==
  /\ \A p \in Procs :
       /\ pc[p] \in WriterPcs \cup ReadsUnderLock => (lockW = p /\ InExclusive(p))
       /\ InExclusive(p) =>
            /\ lockW = p
            /\ readers = {}
            /\ \A q \in Procs \ {p} : ~InExclusive(q) /\ pc[q] \notin SharedPcs
       /\ pc[p] \in SharedPcs <=> p \in readers
       /\ pc[p] = "drain" => lockW = p
  /\ lockW # NoProc => pc[lockW] \in ExclusivePcs \cup {"drain"}
  /\ readers \subseteq Procs

\* A Dedup call is inside its read section while a Zero call has asked for
\* the write lock and waits for it to leave.
C18_Witness ==
  \E p, q \in Procs :
    /\ op[p] = "Dedup" /\ pc[p] = "read" /\ readers = {p}
    /\ op[q] = "Zero" /\ pc[q] = "drain" /\ lockW = q

\* C19: for every payload x stored with Set, Unwrap returns (nil, x) when x
\* is an error and (x, nil) otherwise, never panics and never returns a
\* non-nil value together with a non-nil error; Get panics exactly when
\* Unwrap reports an error, with that error, and otherwise returns x: an
\* error payload is never returned by Get.
C19_UnwrapTotalExclusive ==
  \A p \in Procs :
    /\ (op[p] = "Either.Unwrap" /\ pc[p] = "done") =>
         /\ lval[p].v = arg[p].v
         /\ res[p].k = "ret"
         /\ ~(res[p].v # "nil" /\ res[p].e # "nil")
         /\ IF arg[p].v \in Errors
            THEN res[p].v = "nil" /\ res[p].e = arg[p].v
            ELSE res[p].v = arg[p].v /\ res[p].e = "nil"
    /\ (op[p] = "Either.Get" /\ pc[p] = "done") =>
         /\ (res[p].k = "panic") = (Unwrap(arg[p].v).err # "nil")
         /\ res[p] = IF arg[p].v \in Errors THEN Panicked(arg[p].v)
                     ELSE Returned(arg[p].v)

\* Unwrap on an Either in which an error was stored has returned (nil, the
\* error).
C19_Witness ==
  /\ op[Caller] = "Either.Unwrap" /\ pc[Caller] = "done"
  /\ arg[Caller].v = "errE" /\ lval[Caller].v = "errE"
  /\ res[Caller].v = "nil" /\ res[Caller].e = "errE"

\* C20 as stated: Dedup with policy Duration(D) over a state stamped t. At
\* its first check, made at time now: if now <= t + D it returns the stored
\* state with no write and no getter or timer invocation; if now > t + D it
\* goes for the write lock and then refreshes, never finding the state fresh
\* at the re-check, invoking a non-nil getter once. With D negative a state
\* is served only when its timestamp is in the future, t > now - D. A state
\* with the zero timestamp is expired whenever now - D is after the zero
\* time.
DurD == exp[Caller].i

FirstCheck == pc[Caller] = "runlock" /\ pc'[Caller] # "runlock"

Served ==
  /\ pc'[Caller] = "done" /\ path'[Caller] = "fast"
  /\ ret'[Caller] = lval[Caller] /\ val' = val /\ val = lval[Caller]
  /\ ninv'[Caller] = NoInvocations

DurationRule ==
  /\ [][FirstCheck =>
          /\ now <= lval[Caller].t + DurD => Served
          /\ now > lval[Caller].t + DurD => pc'[Caller] = "lock"
          /\ (lval[Caller].t = ZeroTime /\ now - DurD > ZeroTime) => pc'[Caller] = "lock"]_vars
  /\ [][(pc[Caller] = "recheck" /\ pc'[Caller] # "recheck") =>
          (now > val.t + DurD /\ pc'[Caller] = "setget")]_vars
  /\ [](pc[Caller] = "dunlock" =>
          /\ path[Caller] = "refresh"
          /\ ninv[Caller].g = (IF get[Caller] = "nil" THEN 0 ELSE 1))

C20_DurationStrictFuture ==
  /\ DurationRule
  /\ [][(FirstCheck /\ DurD < 0 /\ pc'[Caller] = "done") =>
          (lval[Caller].t > now /\ lval[Caller].t > now - DurD)]_vars

\* C20, amended: the same, but with D negative a state is served only when
\* its timestamp is in the future by at least -D: t >= now - D.
C20_DurationExpiry ==
  /\ DurationRule
  /\ [][(FirstCheck /\ DurD < 0 /\ pc'[Caller] = "done") =>
          (lval[Caller].t > now /\ lval[Caller].t >= now - DurD)]_vars

\* With a negative duration, a Dedup call has served a state whose
\* timestamp is exactly that far in the future.
C20_Witness ==
  /\ op[Caller] = "Dedup" /\ pc[Caller] = "done" /\ path[Caller] = "fast"
  /\ exp[Caller] = DurationExpirer(0 - MaxDur)
  /\ ret[Caller].t = now + MaxDur

\* C21: with every getter, timer and policy call ending, by return or by
\* panic, and a lock that starves nobody, every GetTimed, SetTimed, Zero and
\* Dedup call that has begun ends, by return or by panic; and whenever no
\* call is in progress, nobody holds or has asked for the lock, for reading
\* or for writing.
InCall(p) == pc[p] \notin {"idle", "done"}
Quiet == \A p \in Procs : ~InCall(p)

C21_EventualReturn ==
  /\ [](Quiet => (lockW = NoProc /\ readers = {}))
  /\ \A p \in Procs : InCall(p) ~> (pc[p] = "done")

\* No call is in progress: a Dedup call has ended by the panic of its
\* policy at the re-check, and a SetTimed call of another goroutine, which
\* needs the write lock, has returned.
C21_Witness ==
  \E p, q \in Procs :
    /\ Quiet
    /\ op[p] = "Dedup" /\ pc[p] = "done" /\ path[p] = "panic2"
    /\ res[p] = Panicked("errE")
    /\ q # p /\ op[q] = "SetTimed" /\ pc[q] = "done"

\* C22: in every interleaving, what a Dedup call returns is (a) a state
\* that was the stored state at a moment of the call, at its read or at its
\* re-check, and that its policy found not expired there, or (b) the state
\* that its own SetGetter and SetTimer left, with its getter and its timer
\* invoked; a returned state that the policy of the call deems expired was
\* returned by a refresh.
WrittenPayload(p) == IF Raised(tres[p]) THEN tres[p].v ELSE AfterGetter(p)

WrittenTime(p) ==
  IF time[p].k = "nil" THEN ZeroTime
  ELSE IF tres[p].k = "ret" THEN tres[p].t
  ELSE lval[p].t

C22_ReturnedStates ==
  /\ [](\A p \in Procs :
          op[p] = "Dedup" =>
            /\ pc[p] = "runlock" => lval[p] = val
            /\ pc[p] = "dunlock" =>
                 /\ ret[p] = val
                 /\ path[p] \in {"recheck", "refresh"}
                 /\ path[p] = "recheck" =>
                      (~IsExpired(exp[p], ret[p]) /\ ninv[p] = NoInvocations)
                 /\ path[p] = "refresh" =>
                      /\ ret[p] = MakeTimed(WrittenPayload(p), WrittenTime(p))
                      /\ ninv[p] = [g |-> IF get[p] = "nil" THEN 0 ELSE 1,
                                    t |-> IF time[p].k = "nil" THEN 0 ELSE 1]
            /\ pc[p] = "done" =>
                 /\ path[p] \in {"fast", "recheck", "refresh"}
                 /\ IsExpired(exp[p], ret[p]) => path[p] = "refresh")
  /\ [][\A p \in Procs :
          (op[p] = "Dedup" /\ pc[p] = "runlock" /\ pc'[p] = "done")
            => /\ ret'[p] = val /\ path'[p] = "fast"
               /\ ~IsExpired(exp[p], val)
               /\ ninv'[p] = NoInvocations]_vars
  /\ [][\A p \in Procs :
          (op[p] = "Dedup" /\ pc[p] = "dunlock" /\ pc'[p] = "done")
            => (ret'[p] = ret[p] /\ path'[p] = path[p])]_vars

\* A refresh is about to return the state it wrote, a failure of its timer
\* over the value its getter produced, stamped as the state before; the
\* policy of the call deems that state expired, as it did the one before.
C22_Witness ==
  \E p \in Procs :
    /\ op[p] = "Dedup" /\ pc[p] = "dunlock" /\ path[p] = "refresh"
    /\ exp[p] = InstExpirer(ZeroTime)
    /\ lval[p] = MakeTimed("v1", MaxTime)
    /\ gres[p] = Returned("v1") /\ tres[p] = Panicked("errE")
    /\ ret[p] = MakeTimed("errE", MaxTime)

\* C23: when the policy of a Dedup call panics, at the first check or at the
\* re-check under the write lock, the call ends by that panic with no getter
\* or timer invocation and with the stored state as it was; the call holds
\* the lock in no way afterwards, and a goroutine that waits for the lock
\* while no other call is in progress gets it.
PolicyRaises(e, timed) == e.k = "strict" /\ IsError(timed.v)

RaisedAtFirstCheck(p) ==
  /\ pc'[p] = "done" /\ res'[p] = Panicked(lval[p].v)
  /\ ret'[p] = ZeroTimed
  /\ val' = val /\ ninv'[p] = NoInvocations
  /\ p \notin readers' /\ lockW' = lockW /\ lockW # p

RaisedAtRecheck(p) ==
  /\ pc'[p] = "done" /\ res'[p] = Panicked(val.v)
  /\ ret'[p] = ZeroTimed
  /\ val' = val /\ ninv'[p] = NoInvocations
  /\ lockW = p /\ lockW' = NoProc /\ readers' = {}

LockStep(q) == RLock(q) \/ Lock(q) \/ LockDrained(q)

C23_RaisingPolicy ==
  /\ [][\A p \in Procs :
          (op[p] = "Dedup" /\ pc[p] = "runlock" /\ pc'[p] # "runlock"
             /\ PolicyRaises(exp[p], lval[p]))
            => RaisedAtFirstCheck(p)]_vars
  /\ [][\A p \in Procs :
          (pc[p] = "recheck" /\ pc'[p] # "recheck" /\ PolicyRaises(exp[p], val))
            => RaisedAtRecheck(p)]_vars
  /\ [](\A p \in Procs :
          (op[p] = "Dedup" /\ pc[p] = "done" /\ res[p].k = "panic") =>
            /\ path[p] \in {"panic1", "panic2"}
            /\ ninv[p] = NoInvocations
            /\ lockW # p /\ p \notin readers
            /\ \A q \in Procs \ {p} :
                 (/\ pc[q] \in {"rlock", "lock", "drain"}
                  /\ \A r \in Procs \ {q} : ~InCall(r))
                   => ENABLED LockStep(q))

\* A Dedup call has ended by the panic of its policy at the re-check, on a
\* failure that another goroutine stored after the first check; the stored
\* state is that failure still, and a call of the other goroutine is inside
\* its read section.
C23_Witness ==
  \E p, q \in Procs :
    /\ op[p] = "Dedup" /\ pc[p] = "done" /\ path[p] = "panic2"
    /\ res[p] = Panicked("errE") /\ val.v = "errE"
    /\ q # p /\ pc[q] = "read" /\ readers = {q}

\* C24: in a refresh whose getter failed with E (returned the error E or
\* panicked with E), a non-nil timer is invoked all the same, and when it
\* returns T the stored state is (E, T). A later Dedup call whose policy
\* deems (E, T) fresh returns it by the read path, with no invocation and no
\* write, and Get on its result panics with E. When the timer panics, the
\* stored timestamp is the one from before the refresh and the policy of
\* the call deems the new state expired as well; the next Dedup call with
\* that policy finds the state expired and refreshes again, invoking its
\* getter.
PrevFailureStamped == Failed(prev[Caller].g) /\ prev[Caller].t.k = "ret"
PrevClockFailed == prev[Caller].t.k = "panic"
InvokedOnce(p) == [g |-> IF get[p] = "nil" THEN 0 ELSE 1,
                   t |-> IF time[p].k = "nil" THEN 0 ELSE 1]

C24_FailuresCached ==
  /\ (pc[Caller] \in {"return", "dunlock"} /\ Failed(gres[Caller])
        /\ time[Caller].k # "nil") =>
       /\ ninv[Caller] = [g |-> 1, t |-> 1]
       /\ tres[Caller] # NoOutcome
       /\ tres[Caller].k = "ret" => val = MakeTimed(gres[Caller].v, tres[Caller].t)
  /\ (op[Caller] = "Dedup" /\ PrevFailureStamped /\ PolicyFresh(exp[Caller], s0)) =>
       /\ s0 = MakeTimed(prev[Caller].g.v, prev[Caller].t.t)
       /\ val = s0
       /\ ninv[Caller] = NoInvocations
       /\ pc[Caller] \in {"rlock", "read", "runlock", "done"}
       /\ pc[Caller] = "done" =>
            /\ ret[Caller] = s0 /\ path[Caller] = "fast"
            /\ IsError(s0.v) => EitherGet(ret[Caller].v) = Panicked(prev[Caller].g.v)
  /\ (pc[Caller] \in {"return", "dunlock"} /\ tres[Caller].k = "panic") =>
       /\ val.t = s0.t
       /\ IsExpired(exp[Caller], val)
  /\ (op[Caller] = "Dedup" /\ PrevClockFailed /\ exp[Caller] = prev[Caller].e) =>
       /\ IsExpired(exp[Caller], s0)
       /\ pc[Caller] = "dunlock" => ninv[Caller] = InvokedOnce(Caller)
       /\ pc[Caller] \in {"dunlock", "done"} => path[Caller] = "refresh"

\* After a refresh whose getter panicked with E and whose timer returned
\* the latest time, a Dedup call with a policy under which that state is
\* fresh has returned the cached failure.
C24_Witness ==
  /\ prev[Caller].g = Panicked("errE") /\ prev[Caller].t = ReturnedTime(MaxTime)
  /\ op[Caller] = "Dedup" /\ pc[Caller] = "done" /\ path[Caller] = "fast"
  /\ exp[Caller] = InstExpirer(MaxTime)
  /\ ret[Caller] = MakeTimed("errE", MaxTime)

\* After a refresh whose timer panicked, the next Dedup call with the same
\* policy is refreshing again: its getter is running.
C24_WitnessAgain ==
  /\ PrevClockFailed /\ prev[Caller].e = InstExpirer(ZeroTime)
  /\ op[Caller] = "Dedup" /\ exp[Caller] = prev[Caller].e
  /\ pc[Caller] = "getting"

====
